---- MODULE Spec2Model ----
(***************************************************************************)
(* Model of semantic_release/history/__init__.py: version declarations     *)
(* (pattern and TOML), the declaration loader, the current / new /         *)
(* previous version functions and the version writer.                      *)
(*                                                                         *)
(* Text (file contents, version strings, commit messages, configuration    *)
(* strings) is a sequence of one-character strings.  Offsets are Python    *)
(* offsets: s[i:j] is SubSeq(s, i + 1, j).                                 *)
(***************************************************************************)
EXTENDS Integers, Sequences, FiniteSets, TLC

\* ------------------------------------------------------------------ text

Digits == {"0", "1", "2", "3", "4", "5", "6", "7", "8", "9"}

\* Every character a text of the model can hold.
Alphabet ==
    Digits \cup {".", "V", "K", "=", ":", "\"", "'", " ", "x", "v", "a", "b",
                 "c", "r", "-", "+", ",", "\\", "#", "\n", "{version}"}

\* s[i:j]
Slice(s, i, j) == SubSeq(s, i + 1, j)

\* needle in s
Contains(s, needle) ==
    \E i \in 0..(Len(s) - Len(needle)) : Slice(s, i, i + Len(needle)) = needle

\* s.split(sep, 1): the text before and after the first sep; without a sep
\* the unpacking of the one-element list raises ValueError.
SplitOnce(s, sep) ==
    IF \E i \in 1..Len(s) : s[i] = sep
    THEN LET i == CHOOSE k \in 1..Len(s) :
                     s[k] = sep /\ \A m \in 1..(k - 1) : s[m] # sep
         IN [ok |-> TRUE, head |-> SubSeq(s, 1, i - 1),
             tail |-> SubSeq(s, i + 1, Len(s))]
    ELSE [ok |-> FALSE, head |-> s, tail |-> <<>>]

RECURSIVE SplitAll(_, _)
\* s.split(sep)
SplitAll(s, sep) ==
    LET sp == SplitOnce(s, sep)
    IN IF sp.ok THEN <<sp.head>> \o SplitAll(sp.tail, sep) ELSE <<s>>

\* ----------------------------------------------------------------- regex
\* A pattern is a sequence of items: a character class with a greedy
\* quantifier, the parentheses of capture group 1, or an optional
\* non-capturing group.

One(S) == [t |-> "cls", set |-> S, min |-> 1, many |-> FALSE]
Plus(S) == [t |-> "cls", set |-> S, min |-> 1, many |-> TRUE]
Star(S) == [t |-> "cls", set |-> S, min |-> 0, many |-> TRUE]
Optional(S) == [t |-> "cls", set |-> S, min |-> 0, many |-> FALSE]
GroupOpen == [t |-> "open"]
GroupClose == [t |-> "close"]
OptGroup(sub) == [t |-> "opt", sub |-> sub]

\* "." of a regular expression: any character but a newline
AnyChar == Alphabet \ {"\n"}

NoMatch == [ok |-> FALSE, i |-> 0, j |-> 0, ii |-> -1, jj |-> -1]

RECURSIVE RunLength(_, _, _, _)
\* how many characters of S follow offset i, at most cap
RunLength(s, i, S, cap) ==
    IF cap = 0 \/ i >= Len(s) \/ s[i + 1] \notin S THEN 0
    ELSE 1 + RunLength(s, i + 1, S, cap - 1)

RECURSIVE MatchHere(_, _, _, _, _, _)
RECURSIVE TryRepeat(_, _, _, _, _, _, _, _)
\* The backtracking matcher: the first way, in the order of a greedy
\* matcher, for pattern p to match s from offset i (start is the match's
\* start, ii and jj the group's span so far).
MatchHere(p, s, start, i, ii, jj) ==
    IF p = <<>> THEN [ok |-> TRUE, i |-> start, j |-> i, ii |-> ii, jj |-> jj]
    ELSE LET e == Head(p)
             rest == Tail(p)
         IN CASE e.t = "open" -> MatchHere(rest, s, start, i, i, jj)
              [] e.t = "close" -> MatchHere(rest, s, start, i, ii, i)
              [] e.t = "opt" ->
                    LET with == MatchHere(e.sub \o rest, s, start, i, ii, jj)
                    IN IF with.ok THEN with
                       ELSE MatchHere(rest, s, start, i, ii, jj)
              [] OTHER ->
                    TryRepeat(rest, s, start, i, ii, jj, e.min,
                              RunLength(s, i, e.set,
                                        IF e.many THEN Len(s) ELSE 1))

\* a repetition: the longest run first, then one character fewer
TryRepeat(rest, s, start, i, ii, jj, min, k) ==
    IF k < min THEN NoMatch
    ELSE LET r == MatchHere(rest, s, start, i + k, ii, jj)
         IN IF r.ok THEN r
            ELSE TryRepeat(rest, s, start, i, ii, jj, min, k - 1)

\* re.match(p, s): a match at the start of s
re_match(p, s) == MatchHere(p, s, 0, 0, -1, -1)

RECURSIVE re_search(_, _, _)
\* the match m found at offset pos, or else the leftmost one after pos
FirstMatch(p, s, pos, m) == IF m.ok THEN m ELSE re_search(p, s, pos + 1)

\* the leftmost match at or after offset pos
re_search(p, s, pos) ==
    IF pos > Len(s) THEN NoMatch
    ELSE FirstMatch(p, s, pos, MatchHere(p, s, pos, pos, -1, -1))

RECURSIVE FindFrom(_, _, _)
\* the match m and those after it
MatchesFrom(p, s, m) ==
    IF ~m.ok THEN <<>>
    ELSE <<m>> \o FindFrom(p, s, IF m.j > m.i THEN m.j ELSE m.j + 1)

FindFrom(p, s, pos) == MatchesFrom(p, s, re_search(p, s, pos))

\* re.finditer(p, s): the non-overlapping matches, left to right
re_finditer(p, s) == FindFrom(p, s, 0)

\* ------------------------------------------------------------ exceptions

Raised(kind) == [ok |-> FALSE, err |-> kind]

\* ---------------------------------------------------------- declarations
\* A declaration is [kind, path, pattern, key]: kind "pattern" with the
\* compiled pattern, or kind "toml" with the key.

\* PatternVersionDeclaration.version_regex: (\d+\.\d+(?:\.\d+)?)
version_regex ==
    <<GroupOpen, Plus(Digits), One({"."}), Plus(Digits),
      OptGroup(<<One({"."}), Plus(Digits)>>), GroupClose>>

RECURSIVE RegexOfText(_, _)
\* The pattern a text compiles to: "." is any character, a backslash makes
\* the next character literal, the placeholder (when format is set, as in
\* from_pattern's pattern.format) is the version pattern, any other
\* character of the model's alphabet stands for itself.  A lone trailing
\* backslash does not compile (re.error at the first use): no match.
RegexOfText(text, format) ==
    IF text = <<>> THEN <<>>
    ELSE LET c == Head(text)
         IN IF c = "\\"
            THEN IF Len(text) = 1 THEN <<One({})>>
                 ELSE <<One({text[2]})>> \o RegexOfText(Tail(Tail(text)), format)
            ELSE (IF c = "." THEN <<One(AnyChar)>>
                  ELSE IF c = "{version}" /\ format THEN version_regex
                  ELSE <<One({c})>>) \o RegexOfText(Tail(text), format)

PatternVersionDeclaration(path, pattern) ==
    [kind |-> "pattern", path |-> path, pattern |-> pattern, key |-> <<>>]

TomlVersionDeclaration(path, key) ==
    [kind |-> "toml", path |-> path, pattern |-> <<>>, key |-> key]

\* VersionDeclaration.from_toml
from_toml(config_str) ==
    LET sp == SplitOnce(config_str, ":")
    IN IF ~sp.ok THEN Raised("ValueError")
       ELSE [ok |-> TRUE, decl |-> TomlVersionDeclaration(sp.head, sp.tail)]

\* VersionDeclaration.from_variable:
\*   rf'{variable} *[:=] *["\']{version_regex}["\']'
from_variable(config_str) ==
    LET sp == SplitOnce(config_str, ":")
    IN IF ~sp.ok THEN Raised("ValueError")
       ELSE [ok |-> TRUE,
             decl |-> PatternVersionDeclaration(sp.head,
                 RegexOfText(sp.tail, FALSE)
                 \o <<Star({" "}), One({":", "="}), Star({" "}),
                      One({"\"", "'"})>>
                 \o version_regex \o <<One({"\"", "'"})>>)]

\* VersionDeclaration.from_pattern: pattern.format(version=version_regex)
from_pattern(config_str) ==
    LET sp == SplitOnce(config_str, ":")
    IN IF ~sp.ok THEN Raised("ValueError")
       ELSE [ok |-> TRUE,
             decl |-> PatternVersionDeclaration(sp.head,
                                                RegexOfText(sp.tail, TRUE))]

\* ------------------------------------------------------------------ TOML
\* tomlkit's document, for the documents of the model: lines that are
\* blank, a comment, or  key = "value"  /  key = 'value'  with a bare key,
\* no tables.  The document keeps every line's text, so dumping it gives
\* the text back but for a value that was set.

BareKeyChars == Digits \cup {"V", "K", "x", "v", "a", "b", "c", "r", "-"}
Quotes == {"\"", "'"}

\* text.split("\n")
SplitLines(text) == SplitAll(text, "\n")

RECURSIVE JoinLines(_)
JoinLines(ls) ==
    IF Len(ls) = 1 THEN ls[1] ELSE ls[1] \o <<"\n">> \o JoinLines(Tail(ls))

\* One line of a document: kind "blank", "comment", "kv" (with the key and
\* the offsets vs, ve of the quoted value) or "bad".  The scan goes left to
\* right: indent p0, key to p1, "=" at p2, opening quote at p3, closing
\* quote at p4, the rest from p5.
BadLine == [kind |-> "bad", key |-> <<>>, vs |-> 0, ve |-> 0]

Spaces(l, p) == RunLength(l, p, {" "}, Len(l))

\* what a string that opens with quote q cannot hold (escapes of a basic
\* string are not modelled)
StringEnd(q) == {q} \cup (IF q = "\"" THEN {"\\"} ELSE {})

TomlAfterValue(l, p0, p1, p3, p4, p5) ==
    IF p5 = Len(l) \/ l[p5 + 1] = "#"
    THEN [kind |-> "kv", key |-> Slice(l, p0, p1), vs |-> p3, ve |-> p4 + 1]
    ELSE BadLine

TomlAtClose(l, p0, p1, p3, p4) ==
    IF p4 >= Len(l) \/ l[p4 + 1] # l[p3 + 1] THEN BadLine
    ELSE TomlAfterValue(l, p0, p1, p3, p4, p4 + 1 + Spaces(l, p4 + 1))

TomlAtQuote(l, p0, p1, p3) ==
    IF p3 >= Len(l) \/ l[p3 + 1] \notin Quotes THEN BadLine
    ELSE TomlAtClose(l, p0, p1, p3,
                     p3 + 1 + RunLength(l, p3 + 1,
                                        AnyChar \ StringEnd(l[p3 + 1]), Len(l)))

TomlAtEquals(l, p0, p1, p2) ==
    IF p2 >= Len(l) \/ l[p2 + 1] # "=" THEN BadLine
    ELSE TomlAtQuote(l, p0, p1, p2 + 1 + Spaces(l, p2 + 1))

TomlAfterKey(l, p0, p1) ==
    IF p1 = p0 THEN BadLine ELSE TomlAtEquals(l, p0, p1, p1 + Spaces(l, p1))

TomlAfterIndent(l, p0) ==
    IF p0 = Len(l) THEN [BadLine EXCEPT !.kind = "blank"]
    ELSE IF l[p0 + 1] = "#" THEN [BadLine EXCEPT !.kind = "comment"]
    ELSE TomlAfterKey(l, p0, p0 + RunLength(l, p0, BareKeyChars, Len(l)))

TomlLine(l) == TomlAfterIndent(l, Spaces(l, 0))

\* the document of lines ls, items what each line is
TomlDocument(ls, items) ==
    IF \/ \E k \in 1..Len(ls) : items[k].kind = "bad"
       \/ \E k, m \in 1..Len(ls) :
             k < m /\ items[k].kind = "kv" /\ items[m].kind = "kv"
             /\ items[k].key = items[m].key
    THEN [ok |-> FALSE, err |-> "TOMLKitError", lines |-> <<>>, items |-> <<>>]
    ELSE [ok |-> TRUE, err |-> "", lines |-> ls, items |-> items]

TomlLines(ls) == TomlDocument(ls, [k \in 1..Len(ls) |-> TomlLine(ls[k])])

\* tomlkit.loads: the lines and what each is; a line that is no TOML, or a
\* key given twice, raises.
toml_loads(text) == TomlLines(SplitLines(text))

\* key in _config (Dotty over a document without tables)
toml_has(doc, key) ==
    \E k \in 1..Len(doc.lines) : doc.items[k].kind = "kv" /\ doc.items[k].key = key

toml_index(doc, key) ==
    CHOOSE k \in 1..Len(doc.lines) :
        doc.items[k].kind = "kv" /\ doc.items[k].key = key

\* the value of the kv line l
TomlValue(l, item) == Slice(l, item.vs + 1, item.ve - 1)

\* the kv line l with its value set: a basic (double-quoted) string
TomlSetValue(l, item, value) ==
    Slice(l, 0, item.vs) \o <<"\"">> \o value \o <<"\"">>
    \o Slice(l, item.ve, Len(l))

\* _config.get(key)
toml_get(doc, key) ==
    TomlValue(doc.lines[toml_index(doc, key)], doc.items[toml_index(doc, key)])

\* _config[key] = value; tomlkit.dumps(_config): the rest of the document
\* keeps its text.
toml_set_dumps(doc, key, value) ==
    JoinLines([doc.lines EXCEPT ![toml_index(doc, key)] =
                  TomlSetValue(@, doc.items[toml_index(doc, key)], value)])

\* ----------------------------------------------------------------- files
\* files maps the path of every file that exists to its text; readonly is
\* the set of paths that cannot be written.

\* Path.write_text
write_text(files, readonly, path, text) ==
    IF path \in readonly
    THEN [ok |-> FALSE, err |-> "PermissionError", files |-> files, writes |-> 0]
    ELSE [ok |-> TRUE, err |-> "",
          files |-> [q \in DOMAIN files \cup {path} |->
                        IF q = path THEN text ELSE files[q]],
          writes |-> 1]

\* the set of m.group(1) over the matches
GroupsOf(ms, content) == {Slice(content, ms[k].ii, ms[k].jj) : k \in 1..Len(ms)}

NoFile == [ok |-> FALSE, err |-> "FileNotFoundError", values |-> {}]

\* PatternVersionDeclaration.parse
pattern_parse(d, files) ==
    IF d.path \notin DOMAIN files THEN NoFile
    ELSE [ok |-> TRUE, err |-> "",
          values |-> GroupsOf(re_finditer(d.pattern, files[d.path]),
                              files[d.path])]

\* the set of the key's value in a loaded document
TomlValues(doc, key) ==
    IF ~doc.ok THEN [ok |-> FALSE, err |-> doc.err, values |-> {}]
    ELSE [ok |-> TRUE, err |-> "",
          values |-> IF toml_has(doc, key) THEN {toml_get(doc, key)} ELSE {}]

\* TomlVersionDeclaration.parse
toml_parse(d, files) ==
    IF d.path \notin DOMAIN files THEN NoFile
    ELSE TomlValues(toml_loads(files[d.path]), d.key)

\* VersionDeclaration.parse
parse(d, files) ==
    IF d.kind = "toml" THEN toml_parse(d, files) ELSE pattern_parse(d, files)

\* a swap_version that returns the new version alone, dropping the rest of
\* the match
swap_version_whole(s, m, new_version) == new_version

\* swap_version, the replacement of one match m of s:
\*   s[i:ii] + new_version + s[jj:j]
swap_version(s, m, new_version) ==
    Slice(s, m.i, m.ii) \o new_version \o Slice(s, m.jj, m.j)

RECURSIVE SubFrom(_, _, _, _)
SubFrom(ms, s, pos, new_version) ==
    IF ms = <<>> THEN Slice(s, pos, Len(s))
    ELSE Slice(s, pos, Head(ms).i) \o swap_version(s, Head(ms), new_version)
         \o SubFrom(Tail(ms), s, Head(ms).j, new_version)

\* a re.sub with count=1: only the first match is replaced
SubFirst(ms, s, new_version) ==
    IF ms = <<>> THEN s ELSE SubFrom(<<Head(ms)>>, s, 0, new_version)

re_sub_first(p, s, new_version) == SubFirst(re_finditer(p, s), s, new_version)

\* re.sub(pattern, swap_version, old_content)
re_sub(p, s, new_version) == SubFrom(re_finditer(p, s), s, 0, new_version)

Unwritten(files, err) ==
    [ok |-> err = "", err |-> err, files |-> files, writes |-> 0]

\* PatternVersionDeclaration.replace: the file is written whether or not
\* anything matched.
pattern_replace(d, new_version, files, readonly) ==
    IF d.path \notin DOMAIN files THEN Unwritten(files, "FileNotFoundError")
    ELSE write_text(files, readonly, d.path,
                    re_sub(d.pattern, files[d.path], new_version))

\* the loaded document with the key set, written back
TomlWrite(doc, d, new_version, files, readonly) ==
    IF ~doc.ok THEN Unwritten(files, doc.err)
    ELSE IF toml_has(doc, d.key)
    THEN write_text(files, readonly, d.path,
                    toml_set_dumps(doc, d.key, new_version))
    ELSE Unwritten(files, "")

\* a TomlVersionDeclaration.replace that sets the key and never writes
toml_replace_unwritten(d, new_version, files, readonly) ==
    IF d.path \notin DOMAIN files THEN Unwritten(files, "FileNotFoundError")
    ELSE Unwritten(files, toml_loads(files[d.path]).err)

\* TomlVersionDeclaration.replace: nothing is written when the key is absent.
toml_replace(d, new_version, files, readonly) ==
    IF d.path \notin DOMAIN files THEN Unwritten(files, "FileNotFoundError")
    ELSE TomlWrite(toml_loads(files[d.path]), d, new_version, files, readonly)

\* VersionDeclaration.replace
replace(d, new_version, files, readonly) ==
    IF d.kind = "toml" THEN toml_replace(d, new_version, files, readonly)
    ELSE pattern_replace(d, new_version, files, readonly)

\* ---------------------------------------------------------------- loader
\* A configuration field is [form, list, str]: form "none" (unset), "list"
\* (a list of strings) or "str" (one string).

RECURSIVE CsvScan(_, _, _, _)
\* csv.reader's parser (the default dialect: delimiter ",", quotechar '"',
\* doublequote, no escapechar, not strict) over one line.  st is the
\* parser's state, field the field being read, fields those read.
CsvScan(st, field, fields, rest) ==
    IF rest = <<>>
    THEN [ok |-> TRUE, err |-> "",
          row |-> IF st = "EAT_CRNL" THEN fields ELSE Append(fields, field)]
    ELSE LET c == Head(rest)
             more == Tail(rest)
         IN CASE st = "START_FIELD" ->
                   IF c = "\n" THEN CsvScan("EAT_CRNL", <<>>, Append(fields, field), more)
                   ELSE IF c = "\"" THEN CsvScan("IN_QUOTED_FIELD", field, fields, more)
                   ELSE IF c = "," THEN CsvScan("START_FIELD", <<>>, Append(fields, field), more)
                   ELSE CsvScan("IN_FIELD", Append(field, c), fields, more)
              [] st = "IN_FIELD" ->
                   IF c = "\n" THEN CsvScan("EAT_CRNL", <<>>, Append(fields, field), more)
                   ELSE IF c = "," THEN CsvScan("START_FIELD", <<>>, Append(fields, field), more)
                   ELSE CsvScan("IN_FIELD", Append(field, c), fields, more)
              [] st = "IN_QUOTED_FIELD" ->
                   IF c = "\"" THEN CsvScan("QUOTE_IN_QUOTED_FIELD", field, fields, more)
                   ELSE CsvScan("IN_QUOTED_FIELD", Append(field, c), fields, more)
              [] st = "QUOTE_IN_QUOTED_FIELD" ->
                   IF c = "\"" THEN CsvScan("IN_QUOTED_FIELD", Append(field, c), fields, more)
                   ELSE IF c = "," THEN CsvScan("START_FIELD", <<>>, Append(fields, field), more)
                   ELSE IF c = "\n" THEN CsvScan("EAT_CRNL", <<>>, Append(fields, field), more)
                   ELSE CsvScan("IN_FIELD", Append(field, c), fields, more)
              [] OTHER ->
                   IF c = "\n" THEN CsvScan("EAT_CRNL", field, fields, more)
                   ELSE [ok |-> FALSE, err |-> "csv.Error", row |-> <<>>]

\* x.split(","): quotes are not read
csv_row_naive(x) == [ok |-> TRUE, err |-> "", row |-> SplitAll(x, ",")]

\* next(csv.reader([x])) for a non-empty x
csv_row(x) ==
    IF Head(x) = "\n" THEN CsvScan("EAT_CRNL", <<>>, <<>>, Tail(x))
    ELSE CsvScan("START_FIELD", <<>>, <<>>, x)

\* iter_fields: nothing for an unset or empty value, the list's strings, or
\* the string's comma-separated fields
iter_fields(x) ==
    IF x.form = "none" \/ (x.form = "list" /\ x.list = <<>>)
       \/ (x.form = "str" /\ x.str = <<>>)
    THEN [ok |-> TRUE, err |-> "", row |-> <<>>]
    ELSE IF x.form = "list" THEN [ok |-> TRUE, err |-> "", row |-> x.list]
    ELSE csv_row(x.str)

Construct(option, config_str) ==
    CASE option = "version_variable" -> from_variable(config_str)
      [] option = "version_pattern" -> from_pattern(config_str)
      [] OTHER -> from_toml(config_str)

LoadFailed(err) == [ok |-> FALSE, err |-> err, declarations |-> <<>>]
Loaded(declarations) == [ok |-> TRUE, err |-> "", declarations |-> declarations]

RECURSIVE ConstructAll(_, _, _)
\* declarations.append(declaration), unless the construction r raised
Constructed(option, strs, declarations, r) ==
    IF ~r.ok THEN LoadFailed(r.err)
    ELSE ConstructAll(option, Tail(strs), Append(declarations, r.decl))

\* the declarations of one option's strings, appended to declarations
ConstructAll(option, strs, declarations) ==
    IF strs = <<>> THEN Loaded(declarations)
    ELSE Constructed(option, strs, declarations, Construct(option, Head(strs)))

Options == <<"version_variable", "version_pattern", "version_toml">>

RECURSIVE LoadFrom(_, _, _)
LoadNext(cfg, k, r) ==
    IF ~r.ok THEN r ELSE LoadFrom(cfg, k + 1, r.declarations)

LoadField(cfg, k, declarations, strs) ==
    IF ~strs.ok THEN LoadFailed(strs.err)
    ELSE LoadNext(cfg, k, ConstructAll(Options[k], strs.row, declarations))

\* the three loops of load_version_declarations, from the k-th option on
LoadFrom(cfg, k, declarations) ==
    IF k > Len(Options) THEN Loaded(declarations)
    ELSE LoadField(cfg, k, declarations, iter_fields(cfg[Options[k]]))

\* if not declarations: raise ImproperConfigurationError
NonEmpty(r) ==
    IF r.ok /\ r.declarations = <<>>
    THEN LoadFailed("ImproperConfigurationError") ELSE r

\* load_version_declarations
load_version_declarations(cfg) == NonEmpty(LoadFrom(cfg, 1, <<>>))

\* ------------------------------------------------------------------- VCS
\* The collaborators of vcs_helpers.  tags holds the names of the version
\* tags, newest first; an optional text is [none, text].

None == [none |-> TRUE, text |-> <<>>]
Some(text) == [none |-> FALSE, text |-> text]

\* get_formatted_tag(version)
get_formatted_tag(version) == <<"v">> \o version

\* the version a tag names
TagVersion(tag) == IF tag # <<>> /\ Head(tag) = "v" THEN Tail(tag) ELSE tag

\* get_last_version(tag_patterns): the version of the latest tag, among
\* those tag_patterns names when it is given (<<>>: not given)
get_last_version(tag_list, tag_patterns) ==
    LET matching == {k \in 1..Len(tag_list) :
                        \/ tag_patterns = <<>>
                        \/ \E m \in 1..Len(tag_patterns) : tag_list[k] = tag_patterns[m]}
    IN IF matching = {} THEN None
       ELSE Some(TagVersion(tag_list[CHOOSE k \in matching :
                                         \A m \in matching : k <= m]))

\* ------------------------------------------------------ current version

\* get_current_version_by_tag: "if version:" is false for None and for ""
get_current_version_by_tag(tag_list) ==
    LET version == get_last_version(tag_list, <<>>)
    IN [ok |-> TRUE, err |-> "", msg |-> "",
        value |-> IF ~version.none /\ version.text # <<>> THEN version.text
                  ELSE <<"0", ".", "0", ".", "0">>,
        values |-> {}]

RECURSIVE ParseAll(_, _, _)
Parsed(declarations, files, versions, r) ==
    IF ~r.ok THEN r
    ELSE ParseAll(Tail(declarations), files, versions \cup r.values)

\* [x.parse() for x in declarations] and the union of the sets
ParseAll(declarations, files, versions) ==
    IF declarations = <<>> THEN [ok |-> TRUE, err |-> "", values |-> versions]
    ELSE Parsed(declarations, files, versions, parse(Head(declarations), files))

Failure(err, msg, values) ==
    [ok |-> FALSE, err |-> err, msg |-> msg, value |-> <<>>, values |-> values]

\* a resolution that takes one of several versions
ResolveVersions_any(r) ==
    IF ~r.ok THEN Failure(r.err, "", {})
    ELSE IF Cardinality(r.values) = 0
    THEN Failure("ImproperConfigurationError", "no versions found", {})
    ELSE [ok |-> TRUE, err |-> "", msg |-> "",
          value |-> CHOOSE v \in r.values : TRUE, values |-> {}]

\* the version of the union r of the parsed sets
ResolveVersions(r) ==
    IF ~r.ok THEN Failure(r.err, "", {})
    ELSE IF Cardinality(r.values) = 0
    THEN Failure("ImproperConfigurationError", "no versions found", {})
    ELSE IF Cardinality(r.values) # 1
    THEN Failure("ImproperConfigurationError", "found conflicting versions",
                 r.values)
    ELSE [ok |-> TRUE, err |-> "", msg |-> "",
          value |-> CHOOSE v \in r.values : TRUE, values |-> {}]

ResolveLoaded(loaded, files) ==
    IF ~loaded.ok
    THEN Failure(loaded.err,
                 IF loaded.err = "ImproperConfigurationError"
                 THEN "must specify" ELSE "", {})
    ELSE ResolveVersions(ParseAll(loaded.declarations, files, {}))

\* get_current_version_by_config_file
get_current_version_by_config_file(cfg, files) ==
    ResolveLoaded(load_version_declarations(cfg), files)

\* a get_current_version that never looks at version_source
get_current_version_by_declarations(cfg, files, tag_list) ==
    get_current_version_by_config_file(cfg, files)

\* get_current_version
get_current_version(cfg, files, tag_list) ==
    IF cfg.version_source = "tag" THEN get_current_version_by_tag(tag_list)
    ELSE get_current_version_by_config_file(cfg, files)

\* ---------------------------------------------------------- new version

DigitValue(c) == CHOOSE n \in 0..9 : ToString(n) = c

RECURSIVE ToInt(_)
\* int(digits)
ToInt(digits) ==
    IF digits = <<>> THEN 0
    ELSE 10 * ToInt(SubSeq(digits, 1, Len(digits) - 1))
         + DigitValue(digits[Len(digits)])

RECURSIVE ToText(_)
\* str(n)
ToText(n) ==
    IF n < 10 THEN <<ToString(n)>> ELSE ToText(n \div 10) \o <<ToString(n % 10)>>

AllIn(s, S) == \A k \in 1..Len(s) : s[k] \in S

\* 0|[1-9]\d*
IsNumericId(s) == s # <<>> /\ AllIn(s, Digits) /\ (Len(s) = 1 \/ s[1] # "0")

IdChars == Digits \cup {"a", "b", "c", "r", "x", "v", "V", "K", "-"}

\* the dot-separated identifiers of a pre-release (numeric ones without a
\* leading zero) or of a build
AreIds(s, build) ==
    \A id \in {SplitAll(s, ".")[k] : k \in 1..Len(SplitAll(s, "."))} :
        /\ id # <<>>
        /\ AllIn(id, IdChars)
        /\ (build \/ ~AllIn(id, Digits) \/ IsNumericId(id))

\* a lenient parse: a missing patch is 0
semver_parse_lenient(version) ==
    LET core == SplitAll(version, ".")
    IN IF Len(core) \in {2, 3} /\ \A k \in 1..Len(core) : IsNumericId(core[k])
       THEN [ok |-> TRUE, err |-> "", major |-> ToInt(core[1]),
             minor |-> ToInt(core[2]),
             patch |-> IF Len(core) = 3 THEN ToInt(core[3]) ELSE 0,
             prerelease |-> None, build |-> None]
       ELSE [ok |-> FALSE, err |-> "ValueError", major |-> 0, minor |-> 0,
             patch |-> 0, prerelease |-> None, build |-> None]

\* semver.VersionInfo.parse:
\*   major.minor.patch[-prerelease][+build], ValueError otherwise
semver_parse(version) ==
    LET plus == SplitOnce(version, "+")
        dash == SplitOnce(plus.head, "-")
        core == SplitAll(dash.head, ".")
    IN IF /\ Len(core) = 3
          /\ \A k \in 1..3 : IsNumericId(core[k])
          /\ (dash.ok => AreIds(dash.tail, FALSE))
          /\ (plus.ok => AreIds(plus.tail, TRUE))
       THEN [ok |-> TRUE, err |-> "", major |-> ToInt(core[1]),
             minor |-> ToInt(core[2]), patch |-> ToInt(core[3]),
             prerelease |-> IF dash.ok THEN Some(dash.tail) ELSE None,
             build |-> IF plus.ok THEN Some(plus.tail) ELSE None]
       ELSE [ok |-> FALSE, err |-> "ValueError", major |-> 0, minor |-> 0,
             patch |-> 0, prerelease |-> None, build |-> None]

\* a next_version that does not reset the lower parts
next_version_keeps(v, part) ==
    CASE part = "major" -> [v EXCEPT !.major = v.major + 1]
      [] part = "minor" -> [v EXCEPT !.minor = v.minor + 1]
      [] OTHER -> [v EXCEPT !.patch = v.patch + 1]

\* semver.VersionInfo.next_version(part) for part major, minor or patch: a
\* version with a pre-release or a build that is already the next one of
\* its part only drops them.
next_version(v, part) ==
    LET plain == [v EXCEPT !.prerelease = None, !.build = None]
    IN IF /\ (~v.prerelease.none \/ ~v.build.none)
          /\ \/ part = "patch"
             \/ (part = "minor" /\ v.patch = 0)
             \/ (part = "major" /\ v.minor = 0 /\ v.patch = 0)
       THEN plain
       ELSE CASE part = "major" ->
                    [plain EXCEPT !.major = v.major + 1, !.minor = 0, !.patch = 0]
              [] part = "minor" -> [plain EXCEPT !.minor = v.minor + 1, !.patch = 0]
              [] OTHER -> [plain EXCEPT !.patch = v.patch + 1]

\* str(VersionInfo)
semver_str(v) ==
    ToText(v.major) \o <<".">> \o ToText(v.minor) \o <<".">> \o ToText(v.patch)
    \o (IF v.prerelease.none THEN <<>> ELSE <<"-">> \o v.prerelease.text)
    \o (IF v.build.none THEN <<>> ELSE <<"+">> \o v.build.text)

\* str(parse(current_version).next_version(part=level_bump))
Bumped(v, level_bump) ==
    IF ~v.ok THEN [ok |-> FALSE, err |-> v.err, value |-> <<>>]
    ELSE [ok |-> TRUE, err |-> "",
          value |-> semver_str(next_version(v, level_bump))]

\* get_new_version: level_bump "" stands for no bump (None or "")
get_new_version(current_version, level_bump) ==
    IF level_bump = "" THEN [ok |-> TRUE, err |-> "", value |-> current_version]
    ELSE Bumped(semver_parse(current_version), level_bump)

\* ------------------------------------------------------ previous version

\* r"v?(\d+.\d+.\d+)"
previous_version_regex ==
    <<Optional({"v"}), GroupOpen, Plus(Digits), One(AnyChar), Plus(Digits),
      One(AnyChar), Plus(Digits), GroupClose>>

Whitespace == {" ", "\n"}

RECURSIVE Strip(_)
\* s.strip()
Strip(s) ==
    IF s = <<>> THEN s
    ELSE IF Head(s) \in Whitespace THEN Strip(Tail(s))
    ELSE IF s[Len(s)] \in Whitespace THEN Strip(SubSeq(s, 1, Len(s) - 1))
    ELSE s

RECURSIVE ScanLog(_, _, _, _)
\* one pass of the loop: the message holds the version, or it is after the
\* marker and matches, or the loop goes on
ScanMessage(messages, version, found_version, tag_list, matches) ==
    IF Contains(Head(messages), version)
    THEN ScanLog(Tail(messages), version, TRUE, tag_list)
    ELSE IF found_version /\ matches.ok
    THEN Some(Strip(Slice(Head(messages), matches.ii, matches.jj)))
    ELSE ScanLog(Tail(messages), version, found_version, tag_list)

\* the loop of get_previous_version over the commit messages left, and the
\* fallback after it
ScanLog(messages, version, found_version, tag_list) ==
    IF messages = <<>>
    THEN get_last_version(tag_list, <<version, get_formatted_tag(version)>>)
    ELSE ScanMessage(messages, version, found_version, tag_list,
                     re_match(previous_version_regex, Head(messages)))

\* get_previous_version over get_commit_log()'s messages
get_previous_version(version, commit_log, tag_list) ==
    ScanLog(commit_log, version, FALSE, tag_list)

\* ---------------------------------------------------------------- writer

RECURSIVE ReplaceFrom(_, _, _, _, _, _)
\* a loop that swallows the exception of a replace and goes on
Replaced_continue(declarations, k, new_version, readonly, writes, r) ==
    ReplaceFrom(declarations, k + 1, new_version, r.files, readonly,
                writes + r.writes)

\* after the k-th replace: its exception propagates, or the loop goes on
Replaced(declarations, k, new_version, readonly, writes, r) ==
    IF ~r.ok
    THEN [ok |-> FALSE, err |-> r.err, files |-> r.files, failed |-> k,
          writes |-> writes]
    ELSE ReplaceFrom(declarations, k + 1, new_version, r.files, readonly,
                     writes + r.writes)

\* the loop of set_new_version from the k-th declaration on
ReplaceFrom(declarations, k, new_version, files, readonly, writes) ==
    IF k > Len(declarations)
    THEN [ok |-> TRUE, err |-> "", files |-> files, failed |-> 0, writes |-> writes]
    ELSE Replaced(declarations, k, new_version, readonly, writes,
                  replace(declarations[k], new_version, files, readonly))

WriteLoaded(loaded, new_version, files, readonly) ==
    IF ~loaded.ok
    THEN [ok |-> FALSE, err |-> loaded.err, files |-> files, failed |-> 0,
          writes |-> 0]
    ELSE ReplaceFrom(loaded.declarations, 1, new_version, files, readonly, 0)

\* set_new_version
set_new_version(new_version, cfg, files, readonly) ==
    WriteLoaded(load_version_declarations(cfg), new_version, files, readonly)

\* ----------------------------------------------------------------- state

VARIABLES
    config,       \* the configuration: version_source and the three options
    files,        \* the text of every file that exists, by path
    readonly,     \* the paths that cannot be written
    tags,         \* the VCS's version tags, newest first
    commit_log,   \* the messages of get_commit_log()
    result,       \* what the last call did: its name, arguments and outcome
    old_files     \* files as the last call found them

vars == <<config, files, readonly, tags, commit_log, result, old_files>>

\* ------------------------------------------------------------ the inputs

MaxSegments == 2      \* segments of the file of a one-declaration run
MaxEntries == 2       \* strings of one option's list
MaxSuffixes == 2      \* "-" in a file: one with more is not written

PathA == <<"a">>
PathB == <<"b">>
PathC == <<"c">>      \* never exists

\* V = "1.2.3"
SegAssign == <<"V", " ", "=", " ", "\"", "1", ".", "2", ".", "3", "\"">>
\* V='1.2'
SegShort == <<"V", "=", "'", "1", ".", "2", "'">>
\* 1.2.3
SegBare == <<"1", ".", "2", ".", "3">>
\* .4.5
SegDotted == <<".", "4", ".", "5">>
SegNewline == <<"\n">>
SegOther == <<"x">>

Segments == {SegAssign, SegShort, SegBare, SegDotted, SegNewline, SegOther}
\* the files of a declaration-set run
TextsA == {SegAssign, SegShort, SegOther}
TextsB == {SegAssign, SegShort, SegOther, SegBare \o SegDotted}

RECURSIVE TextsOf(_, _)
\* the texts of at most n segments
TextsOf(segments, n) ==
    IF n = 0 THEN {<<>>}
    ELSE LET shorter == TextsOf(segments, n - 1)
         IN shorter \cup {t \o g : t \in shorter, g \in segments}

\* the new versions a caller passes: MAJOR.MINOR.PATCH and two components,
\* and one with a pre-release
NumericVersions == {<<"2", ".", "0", ".", "0">>, <<"9", ".", "9">>}
NewVersions == NumericVersions \cup {<<"2", ".", "0", ".", "0", "-", "r", "c">>}

MaxComponent == 10    \* the largest number of a current version
MaxLog == 4           \* commits of the log
MaxPieces == 5        \* pieces of a configuration string

Numbers == 0..MaxComponent

\* MAJOR.MINOR.PATCH
Triple(a, b, c) == ToText(a) \o <<".">> \o ToText(b) \o <<".">> \o ToText(c)

Triples == {Triple(a, b, c) : a, b, c \in Numbers}

\* MAJOR.MINOR, as version_regex lets a declaration hold
TwoComponents == {ToText(a) \o <<".">> \o ToText(b) : a, b \in {0, 1, 2}}

\* with a pre-release, a build
WithMetadata ==
    {Triple(a, b, c) \o m : a, b, c \in {0, 1},
                            m \in {<<"-", "r", "c">>, <<"+", "b">>}}

\* "", 01.2.3, v1.2.3, 1.2.3.4, 1.2.x
Malformed ==
    {<<>>, <<"0", "1", ".", "2", ".", "3">>, <<"v", "1", ".", "2", ".", "3">>,
     <<"1", ".", "2", ".", "3", ".", "4">>, <<"1", ".", "2", ".", "x">>}

CurrentVersions == Triples \cup TwoComponents \cup WithMetadata \cup Malformed

\* "" stands for no bump
BumpLevels == {"", "patch", "minor", "major"}

\* the messages of a commit: x, r 1.2.3, v1.1.0, 1a1b0, v1.2.30, 1.1
Messages ==
    {<<"x">>, <<"r", " ", "1", ".", "2", ".", "3">>,
     <<"v", "1", ".", "1", ".", "0">>, <<"1", "a", "1", "b", "0">>,
     <<"v", "1", ".", "2", ".", "3", "0">>, <<"1", ".", "1">>}

\* the pieces of a configuration string: a:V  b:K  ,  \  "
Pieces ==
    {<<"a", ":", "V">>, <<"b", ":", "K">>, <<",">>, <<"\\">>, <<"\"">>}

Unset == [form |-> "none", list |-> <<>>, str |-> <<>>]
ListOf(strs) == [form |-> "list", list |-> strs, str |-> <<>>]
StrOf(text) == [form |-> "str", list |-> <<>>, str |-> text]

RECURSIVE ListsOf(_, _)
\* the lists of at most n distinct strings of S
ListsOf(S, n) ==
    IF n = 0 THEN {<<>>}
    ELSE LET shorter == ListsOf(S, n - 1)
         IN shorter \cup {l \in {Append(m, e) : m \in shorter, e \in S} :
                             \A i, j \in 1..Len(l) : i # j => l[i] # l[j]}

FieldsOf(S, n) == {IF l = <<>> THEN Unset ELSE ListOf(l) : l \in ListsOf(S, n)}

VariableStrings == {PathA \o <<":", "V">>, PathC \o <<":", "V">>}
PatternStrings == {PathB \o <<":", "{version}">>}
TomlStrings == {PathA \o <<":", "V">>}

NoResult ==
    [op |-> "", ok |-> TRUE, err |-> "", msg |-> "", none |-> FALSE,
     value |-> <<>>, values |-> {}, failed |-> 0, writes |-> 0, index |-> 0,
     arg |-> <<>>, level |-> "", declarations |-> <<>>]

ConfigOf(source, variable, pattern, toml) ==
    [version_source |-> source, version_variable |-> variable,
     version_pattern |-> pattern, version_toml |-> toml]

\* A declaration set over two files.
Init ==
    /\ \E variable \in FieldsOf(VariableStrings, MaxEntries) :
       \E pattern \in FieldsOf(PatternStrings, MaxEntries) :
       \E toml \in FieldsOf(TomlStrings, MaxEntries) :
          config = ConfigOf("commit", variable, pattern, toml)
    /\ \E a \in TextsA : \E b \in TextsB :
          files = [p \in {PathA, PathB} |-> IF p = PathA THEN a ELSE b]
    /\ readonly = {}
    /\ tags = <<>>
    /\ commit_log = <<>>
    /\ result = NoResult
    /\ old_files = files

\* One declaration over one file, which may be read-only.
InitOne ==
    /\ config \in {ConfigOf("commit", ListOf(<<PathA \o <<":", "V">>>>), Unset, Unset),
                   ConfigOf("commit", Unset, ListOf(<<PathA \o <<":", "{version}">>>>), Unset),
                   ConfigOf("commit", Unset, Unset, ListOf(<<PathA \o <<":", "V">>>>))}
    /\ files \in [{PathA} -> TextsOf(Segments, MaxSegments)]
    /\ readonly \in {{}, {PathA}}
    /\ tags = <<>>
    /\ commit_log = <<>>
    /\ result = NoResult
    /\ old_files = files

\* The two strategies: the VCS has no tag, one or two, and the
\* declarations are none, one, or two that may disagree.
InitSource ==
    /\ \E source \in {"tag", "commit", ""} :
       \E variable \in FieldsOf({PathA \o <<":", "V">>, PathB \o <<":", "V">>}, MaxEntries) :
          config = ConfigOf(source, variable, Unset, Unset)
    /\ files \in [{PathA, PathB} -> {SegAssign, SegShort}]
    /\ readonly = {}
    /\ tags \in {<<>>, <<get_formatted_tag(SegBare)>>,
                 <<<<"2", ".", "0", ".", "0">>, get_formatted_tag(SegBare)>>}
    /\ commit_log = <<>>
    /\ result = NoResult
    /\ old_files = files

\* The version bumper alone: the arguments of the call are drawn here.
InitBump ==
    /\ config = ConfigOf("commit", Unset, Unset, Unset)
    /\ files = [p \in {} |-> <<>>]
    /\ readonly = {}
    /\ tags = <<>>
    /\ commit_log = <<>>
    /\ \E current_version \in CurrentVersions : \E level_bump \in BumpLevels :
          result = [NoResult EXCEPT !.arg = current_version, !.level = level_bump]
    /\ old_files = files

\* A commit log and the tags of the VCS.
InitLog ==
    /\ config = ConfigOf("commit", Unset, Unset, Unset)
    /\ files = [p \in {} |-> <<>>]
    /\ readonly = {}
    /\ tags \in {<<>>, <<get_formatted_tag(SegBare)>>,
                 <<get_formatted_tag(SegBare), <<"1", ".", "0", ".", "0">>>>}
    /\ commit_log \in ListsOf(Messages, MaxLog)
    /\ result = NoResult
    /\ old_files = files

\* One option given as one string; no file is read.
InitLoad ==
    /\ \E str \in TextsOf(Pieces, MaxPieces) :
          config \in {ConfigOf("commit", StrOf(str), Unset, Unset),
                      ConfigOf("commit", Unset, StrOf(str), Unset),
                      ConfigOf("commit", Unset, Unset, StrOf(str))}
    /\ files = [p \in {} |-> <<>>]
    /\ readonly = {}
    /\ tags = <<>>
    /\ commit_log = <<>>
    /\ result = NoResult
    /\ old_files = files

\* --------------------------------------------------------------- actions

\* Replacing a version by one with a pre-release can go on for ever, each
\* round adding a suffix (2.0.0-rc-rc...): the files of the model hold at
\* most MaxSuffixes of them.
Bounded(fs) ==
    \A p \in DOMAIN fs :
        Cardinality({k \in 1..Len(fs[p]) : fs[p][k] = "-"}) <= MaxSuffixes

\* declaration.parse() on the k-th configured declaration
ParseDone(k, r) ==
    result' = [NoResult EXCEPT !.op = "parse", !.index = k, !.ok = r.ok,
                               !.err = r.err, !.values = r.values]

ParseOf(k, loaded) ==
    /\ loaded.ok /\ k \in 1..Len(loaded.declarations)
    /\ ParseDone(k, parse(loaded.declarations[k], files))

Parse(k) ==
    /\ ParseOf(k, load_version_declarations(config))
    /\ old_files' = files
    /\ UNCHANGED <<config, files, readonly, tags, commit_log>>

\* declaration.replace(new_version) on the k-th configured declaration
ReplaceDone(k, new_version, r) ==
    /\ Bounded(r.files)
    /\ files' = r.files
    /\ result' = [NoResult EXCEPT !.op = "replace", !.index = k,
                                  !.arg = new_version, !.ok = r.ok,
                                  !.err = r.err, !.writes = r.writes]

ReplaceOf(k, new_version, loaded) ==
    /\ loaded.ok /\ k \in 1..Len(loaded.declarations)
    /\ ReplaceDone(k, new_version,
                   replace(loaded.declarations[k], new_version, files, readonly))

Replace(k, new_version) ==
    /\ ReplaceOf(k, new_version, load_version_declarations(config))
    /\ old_files' = files
    /\ UNCHANGED <<config, readonly, tags, commit_log>>

Resolved(op, r) ==
    result' = [NoResult EXCEPT !.op = op, !.ok = r.ok, !.err = r.err,
                               !.msg = r.msg, !.value = r.value,
                               !.values = r.values]

GetCurrentVersionByConfigFile ==
    /\ Resolved("get_current_version_by_config_file",
                get_current_version_by_config_file(config, files))
    /\ old_files' = files
    /\ UNCHANGED <<config, files, readonly, tags, commit_log>>

GetCurrentVersion ==
    /\ Resolved("get_current_version", get_current_version(config, files, tags))
    /\ old_files' = files
    /\ UNCHANGED <<config, files, readonly, tags, commit_log>>

SetDone(new_version, r) ==
    /\ Bounded(r.files)
    /\ files' = r.files
    /\ result' = [NoResult EXCEPT !.op = "set_new_version", !.arg = new_version,
                                  !.ok = r.ok, !.err = r.err,
                                  !.failed = r.failed, !.writes = r.writes]

SetNewVersion(new_version) ==
    /\ SetDone(new_version, set_new_version(new_version, config, files, readonly))
    /\ old_files' = files
    /\ UNCHANGED <<config, readonly, tags, commit_log>>

BumpDone(current_version, level_bump, r) ==
    result' = [NoResult EXCEPT !.op = "get_new_version", !.arg = current_version,
                               !.level = level_bump, !.ok = r.ok,
                               !.err = r.err, !.value = r.value]

GetNewVersion(current_version, level_bump) ==
    /\ result.op = ""
    /\ BumpDone(current_version, level_bump,
                get_new_version(current_version, level_bump))
    /\ UNCHANGED <<config, files, readonly, tags, commit_log, old_files>>

PreviousDone(version, r) ==
    result' = [NoResult EXCEPT !.op = "get_previous_version", !.arg = version,
                               !.none = r.none, !.value = r.text]

GetPreviousVersion(version) ==
    /\ PreviousDone(version, get_previous_version(version, commit_log, tags))
    /\ UNCHANGED <<config, files, readonly, tags, commit_log, old_files>>

LoadDone(r) ==
    result' = [NoResult EXCEPT !.op = "load_version_declarations", !.ok = r.ok,
                               !.err = r.err, !.declarations = r.declarations]

LoadVersionDeclarations ==
    /\ LoadDone(load_version_declarations(config))
    /\ UNCHANGED <<config, files, readonly, tags, commit_log, old_files>>

\* the calls on the declarations, with the new versions a caller passes
Calls(versions) ==
    \/ \E k \in 1..(3 * MaxEntries) : Parse(k)
    \/ \E k \in 1..(3 * MaxEntries) : \E v \in versions : Replace(k, v)
    \/ GetCurrentVersionByConfigFile
    \/ \E v \in versions : SetNewVersion(v)

Next == Calls(NumericVersions)

NextOne == Calls(NewVersions)

NextSource == GetCurrentVersion \/ GetCurrentVersionByConfigFile

Spec == Init /\ [][Next]_vars

SpecOne == InitOne /\ [][NextOne]_vars

SpecSource == InitSource /\ [][NextSource]_vars

NextBump == GetNewVersion(result.arg, result.level)

SpecBump == InitBump /\ [][NextBump]_vars

NextLog == \E version \in {SegBare, <<"1", ".", "1", ".", "0">>} : GetPreviousVersion(version)

SpecLog == InitLog /\ [][NextLog]_vars

NextLoad == LoadVersionDeclarations

SpecLoad == InitLoad /\ [][NextLoad]_vars

\* ---------------------------------------------------------------- claims

\* the configured declarations; the configuration does not change
Declarations == load_version_declarations(config).declarations

\* digits "." digits "." digits
IsMajorMinorPatch(v) ==
    /\ Len(SplitAll(v, ".")) = 3
    /\ \A k \in 1..3 : SplitAll(v, ".")[k] # <<>> /\ AllIn(SplitAll(v, ".")[k], Digits)

\* the outcome r of a parse is the set {v}
Yields(r, v) == r.ok /\ r.values = {v}

\* -- C1

\* every declaration parses, on the files as they are
AllParsed ==
    /\ load_version_declarations(config).ok
    /\ \A k \in 1..Len(Declarations) : parse(Declarations[k], files).ok

\* the union of parse() over every declaration
UnionOfParsed ==
    UNION {parse(Declarations[k], files).values : k \in 1..Len(Declarations)}

\* C1: get_current_version_by_config_file returns v only when the union of
\* parse() over the declarations is exactly {v}; an empty union fails with
\* ImproperConfigurationError (no versions found), and a union of two or
\* more values fails with ImproperConfigurationError naming every value: one
\* of several is never picked.
C1_ConsistencyGate ==
    result.op = "get_current_version_by_config_file" =>
        /\ result.ok => AllParsed /\ UnionOfParsed = {result.value}
        /\ (AllParsed /\ UnionOfParsed = {}) =>
              /\ ~result.ok
              /\ result.err = "ImproperConfigurationError"
              /\ result.msg = "no versions found"
        /\ (AllParsed /\ Cardinality(UnionOfParsed) >= 2) =>
              /\ ~result.ok
              /\ result.err = "ImproperConfigurationError"
              /\ result.msg = "found conflicting versions"
              /\ result.values = UnionOfParsed

\* two declarations hold different versions and the resolution fails
C1_Conflict ==
    /\ result.op = "get_current_version_by_config_file"
    /\ AllParsed
    /\ Len(Declarations) >= 2
    /\ Cardinality(UnionOfParsed) = 2
    /\ result.msg = "found conflicting versions"

\* -- C2

InGroup(ms, i) == \E k \in 1..Len(ms) : ms[k].ii <= i /\ i < ms[k].jj

RECURSIVE Shift(_, _, _)
\* how far the text at offset i of the old content has moved, every group
\* before it now being n characters long
Shift(ms, i, n) ==
    IF ms = <<>> \/ Head(ms).jj > i THEN 0
    ELSE n - (Head(ms).jj - Head(ms).ii) + Shift(Tail(ms), i, n)

\* new is old with the group of every match of ms replaced by v, and with
\* every other character where it was, in the same order
OnlyGroupsReplaced(old, new, ms, v) ==
    /\ Len(new) = Len(old) + Shift(ms, Len(old), Len(v))
    /\ \A i \in 0..(Len(old) - 1) :
          ~InGroup(ms, i) => new[i + Shift(ms, i, Len(v)) + 1] = old[i + 1]
    /\ \A k \in 1..Len(ms) :
          Slice(new, ms[k].ii + Shift(ms, ms[k].ii, Len(v)),
                ms[k].ii + Shift(ms, ms[k].ii, Len(v)) + Len(v)) = v

ReplacedIn(d, v) ==
    OnlyGroupsReplaced(old_files[d.path], files[d.path],
                       re_finditer(d.pattern, old_files[d.path]), v)

\* C3: the replace of a PatternVersionDeclaration changes only the
\* characters of the group span of each match; every other character of the
\* file is the same and in the same order, and the new content is written in
\* one write.
C3_NonDestructiveReplace ==
    (/\ result.op = "replace" /\ result.ok
     /\ Declarations[result.index].kind = "pattern") =>
        /\ ReplacedIn(Declarations[result.index], result.arg)
        /\ result.writes = 1

\* a replace over two matches with text around their groups
C3_TwoMatches ==
    /\ result.op = "replace" /\ result.ok
    /\ Declarations[result.index].kind = "pattern"
    /\ Len(re_finditer(Declarations[result.index].pattern, old_files[PathA])) = 2
    /\ \E i \in 0..(Len(old_files[PathA]) - 1) :
          ~InGroup(re_finditer(Declarations[result.index].pattern,
                               old_files[PathA]), i)
    /\ files # old_files

\* -- C4

BumpOf(a, b, c, level) ==
    CASE level = "major" -> Triple(a + 1, 0, 0)
      [] level = "minor" -> Triple(a, b + 1, 0)
      [] level = "patch" -> Triple(a, b, c + 1)
      [] OTHER -> Triple(a, b, c)

\* C4: for every valid current version (major, minor, patch),
\* get_new_version returns (major+1).0.0 for major, major.(minor+1).0 for
\* minor, major.minor.(patch+1) for patch, and the current version for no
\* level.
C4_BumpArithmetic ==
    result.op = "get_new_version" =>
        \A a, b, c \in Numbers :
            result.arg = Triple(a, b, c) =>
                result.ok /\ result.value = BumpOf(a, b, c, result.level)

\* 1.2.3 bumped by major is 2.0.0
C4_MajorOfOneTwoThree ==
    /\ result.op = "get_new_version"
    /\ result.arg = <<"1", ".", "2", ".", "3">>
    /\ result.level = "major"
    /\ result.value = <<"2", ".", "0", ".", "0">>

\* -- C5

\* the one string of the configuration
FieldString ==
    IF config.version_variable.form = "str" THEN config.version_variable.str
    ELSE IF config.version_pattern.form = "str" THEN config.version_pattern.str
    ELSE config.version_toml.str

Commas(x) == {k \in 1..Len(x) : x[k] = ","}

\* one comma, after a backslash, in an entry that names its path
OneEscapedComma(x) ==
    /\ Cardinality(Commas(x)) = 1
    /\ \A k \in Commas(x) :
          /\ k > 2 /\ x[k - 1] = "\\"
          /\ \E c \in 1..(k - 2) : x[c] = ":"
    /\ \A k \in 1..Len(x) : x[k] # "\""

\* every comma-separated entry is path:rest, and there is no quote
PlainEntries(x) ==
    /\ \A k \in 1..Len(x) : x[k] # "\""
    /\ \A k \in 1..Len(SplitAll(x, ",")) : Contains(SplitAll(x, ",")[k], <<":">>)

\* one double-quoted entry path:rest with one comma in it
OneQuotedEntry(x) ==
    /\ Len(x) >= 2 /\ x[1] = "\"" /\ x[Len(x)] = "\""
    /\ \A k \in 2..(Len(x) - 1) : x[k] # "\""
    /\ Cardinality(Commas(x)) = 1
    /\ Contains(x, <<":">>)

\* C5, as the specification states it: a string with one backslash-escaped
\* comma and no other comma yields exactly one declaration.
C5_EscapedComma ==
    (result.op = "load_version_declarations" /\ OneEscapedComma(FieldString)) =>
        result.ok /\ Len(result.declarations) = 1

\* C5, corrected: a string is split on its commas into one declaration per
\* entry, a comma after a backslash included; a comma inside a double-quoted
\* entry does not split it, so that a string that is one quoted entry with
\* one comma yields exactly one declaration.
C5_QuotedComma ==
    result.op = "load_version_declarations" =>
        /\ PlainEntries(FieldString) =>
              /\ result.ok
              /\ Len(result.declarations) = Cardinality(Commas(FieldString)) + 1
        /\ OneQuotedEntry(FieldString) =>
              /\ result.ok
              /\ Len(result.declarations) = 1

\* "a:V,b:K" is one declaration on a
C5_QuotedEntryLoaded ==
    /\ result.op = "load_version_declarations"
    /\ FieldString = <<"\"", "a", ":", "V", ",", "b", ":", "K", "\"">>
    /\ result.ok
    /\ Len(result.declarations) = 1
    /\ result.declarations[1].path = PathA

\* -- C6

\* the files of the declarations before the k-th
PathsBefore(k) == {Declarations[j].path : j \in 1..(k - 1)}

\* C6, as the specification states it: True only if every replace
\* completed; if the k-th replace raises, the files of the declarations
\* before it hold the new version and those of the ones after it are
\* unchanged.
C6_PartialWrite ==
    result.op = "set_new_version" =>
        /\ result.ok =>
              \A j \in 1..Len(Declarations) : parse(Declarations[j], files).ok
        /\ (~result.ok /\ result.failed >= 1) =>
              /\ result.err # ""
              /\ \A j \in 1..(result.failed - 1) :
                    Yields(parse(Declarations[j], files), result.arg)
              /\ \A j \in (result.failed + 1)..Len(Declarations) :
                    Declarations[j].path \in DOMAIN files =>
                        files[Declarations[j].path] = old_files[Declarations[j].path]

\* C6, corrected: True only if every replace completed; if the k-th replace
\* raises, the error propagates and nothing is rolled back: a declaration
\* before the k-th that matched something now parses to the new version (a
\* numeric MAJOR.MINOR.PATCH), one that matched nothing still matches
\* nothing, and every file that is not the file of a declaration before the
\* k-th is unchanged.
C6_PartialWriteApplied ==
    result.op = "set_new_version" =>
        /\ result.ok =>
              \A j \in 1..Len(Declarations) : parse(Declarations[j], files).ok
        /\ (~result.ok /\ result.failed >= 1) =>
              /\ result.err # ""
              /\ ~replace(Declarations[result.failed], result.arg, files, readonly).ok
              /\ \A j \in 1..(result.failed - 1) :
                    /\ parse(Declarations[j], files).ok
                    /\ parse(Declarations[j], old_files).values = {} =>
                          parse(Declarations[j], files).values = {}
                    /\ (/\ IsMajorMinorPatch(result.arg)
                        /\ parse(Declarations[j], old_files).values # {}) =>
                          parse(Declarations[j], files).values = {result.arg}
              /\ \A p \in DOMAIN files :
                    p \notin PathsBefore(result.failed) => files[p] = old_files[p]

\* the third replace raised after two writes, one of which changed its file
C6_FailedAfterTwo ==
    /\ result.op = "set_new_version"
    /\ ~result.ok
    /\ result.failed = 3
    /\ result.writes = 2
    /\ \E p \in PathsBefore(3) : files[p] # old_files[p]

\* -- C7

\* v?(\d+\.\d+\.\d+): the dots are dots
strict_version_regex ==
    <<Optional({"v"}), GroupOpen, Plus(Digits), One({"."}), Plus(Digits),
      One({"."}), Plus(Digits), GroupClose>>

RECURSIVE FirstStrict(_, _)
\* the version of the first message that begins with a strict version, or
\* the fallback
StrictOr(messages, m, fallback) ==
    IF m.ok THEN Some(Slice(Head(messages), m.ii, m.jj))
    ELSE FirstStrict(Tail(messages), fallback)

FirstStrict(messages, fallback) ==
    IF messages = <<>> THEN fallback
    ELSE StrictOr(messages, re_match(strict_version_regex, Head(messages)),
                  fallback)

RECURSIVE AfterMarker(_, _, _)
\* the scan the specification describes: up to the first message that holds
\* the version, and from there to the first strict version
AfterMarker(messages, version, fallback) ==
    IF messages = <<>> THEN fallback
    ELSE IF Contains(Head(messages), version)
    THEN FirstStrict(Tail(messages), fallback)
    ELSE AfterMarker(Tail(messages), version, fallback)

\* C7, as the specification states it: after the commit that holds the
\* version, the version of the first commit whose message begins with an
\* optional v and a strict MAJOR.MINOR.PATCH (digits and literal dots), and
\* get_last_version over the version and its tag only when there is none.
C7_PreviousVersionScan ==
    result.op = "get_previous_version" =>
        [none |-> result.none, text |-> result.value]
          = AfterMarker(commit_log, result.arg,
                        get_last_version(tags, <<result.arg,
                                                 get_formatted_tag(result.arg)>>))

\* -- C8

SameOutcome(r, q) ==
    /\ r.ok = q.ok /\ r.err = q.err /\ r.msg = q.msg
    /\ r.value = q.value /\ r.values = q.values

\* C8: when version_source is "tag", get_current_version returns the
\* version of the latest tag, or 0.0.0 when there is none, whatever the
\* declarations are; for any other version_source it is the resolution over
\* the declarations.
C8_TagMode ==
    result.op = "get_current_version" =>
        IF config.version_source = "tag"
        THEN /\ result.ok /\ result.err = ""
             /\ result.value = IF tags = <<>> THEN <<"0", ".", "0", ".", "0">>
                               ELSE TagVersion(tags[1])
        ELSE SameOutcome(result, get_current_version_by_config_file(config, files))

\* tag mode without a tag and without a declaration: 0.0.0
C8_TagModeBootstrap ==
    /\ result.op = "get_current_version"
    /\ config.version_source = "tag"
    /\ tags = <<>>
    /\ ~load_version_declarations(config).ok
    /\ result.ok
    /\ result.value = <<"0", ".", "0", ".", "0">>

\* -- C9

\* current versions that are no semantic version
NotSemantic == TwoComponents \cup Malformed

\* C9, as the specification states it: get_new_version fails whenever the
\* current version is no valid semantic version, and returns no version.
C9_BumperError ==
    (result.op = "get_new_version" /\ result.arg \in NotSemantic) =>
        ~result.ok /\ result.err = "ValueError" /\ result.value = <<>>

\* C9, corrected: get_new_version fails on a current version that is no
\* valid semantic version whenever a level is given; with no level it
\* returns the current version as it is, valid or not.
C9_BumperErrorOnBump ==
    (result.op = "get_new_version" /\ result.arg \in NotSemantic) =>
        IF result.level = ""
        THEN result.ok /\ result.value = result.arg
        ELSE ~result.ok /\ result.err = "ValueError" /\ result.value = <<>>

\* 1.2 bumped by patch fails
C9_TwoComponentsBumped ==
    /\ result.op = "get_new_version"
    /\ result.arg = <<"1", ".", "2">>
    /\ result.level = "patch"
    /\ ~result.ok

\* -- C10

Returns(r, v) == r.ok /\ r.value = v

\* C10: when the resolution over the declarations succeeds, and then
\* set_new_version(v) returns True for a numeric MAJOR.MINOR.PATCH v, the
\* resolution over the same declarations succeeds and returns v.
C10_PipelineInvariant ==
    (/\ result.op = "set_new_version" /\ result.ok
     /\ IsMajorMinorPatch(result.arg)
     /\ get_current_version_by_config_file(config, old_files).ok) =>
        Returns(get_current_version_by_config_file(config, files), result.arg)

\* declarations of the three kinds agreed on a version and were all set
C10_ThreeKindsSet ==
    /\ result.op = "set_new_version" /\ result.ok
    /\ IsMajorMinorPatch(result.arg)
    /\ get_current_version_by_config_file(config, old_files).ok
    /\ Len(Declarations) = 3
    /\ \E k \in 1..3 : Declarations[k].kind = "toml"
    /\ result.writes = 3
    /\ get_current_version_by_config_file(config, old_files).value # result.arg

====
